---- MODULE Spec2Model ----
(***************************************************************************)
(* Model of the coordinate-transform core of bevy-ofm-viewer (src/main.rs):*)
(* slippy-map tile math (geo_to_tile, tile_to_geo, level_to_tile_width),   *)
(* the reference-relative Web Mercator conversion                          *)
(* (world_mercator_to_lat_lon, lat_lon_to_world_mercator), the viewport    *)
(* rectangle (camera_space_to_lat_long_rect), the per-frame mouse handler  *)
(* (handle_mouse) and the tile resource created in main.                   *)
(*                                                                         *)
(* Number representation.  The source computes in IEEE f64/f32; TLC has    *)
(* 32-bit integers.  Quantities are therefore fixed point:                 *)
(*   - a longitude of the tile math is an exact rational [num, den],       *)
(*     meaning 180 * num / den degrees (den > 0);                          *)
(*   - a latitude of the tile math is an integer number of 1e-6 degrees    *)
(*     that names one f64 sample (the f64 rounded to 1e-6 degree);         *)
(*   - the transcendental parts of the formulas are tables holding what    *)
(*     the source's f64 expression evaluates to at each sample (glibc      *)
(*     libm, round-to-nearest), so f64 rounding is part of the model.      *)
(***************************************************************************)
EXTENDS Integers, Sequences, FiniteSets, TLC

(***************************************************************************)
(* Bounds of the model.                                                    *)
(***************************************************************************)
\* Largest zoom of the flows that involve latitudes (the tables cover MaxZoom + 1).
MaxZoom == 4

(***************************************************************************)
(* Program constants.                                                      *)
(***************************************************************************)
\* The largest zoom for which the i32 expressions 1 << zoom and 2_i32.pow(zoom) are positive.
MaxI32Zoom == 30
\* The latitude tables are sampled at the tile corners of zoom 5 (1/32 of the pyramid height).
TableRows == 2^5
\* One in the Q30 fixed point of MercFracQ30.
Q30 == 2^30

VARIABLES
    tpc,        \* tile math: position of the evaluation
    zoom,       \* tile math: the zoom argument
    coord,      \* tile math: a geographic coordinate [lon, lat], or NoValue
    tile,       \* tile math: a tile index [x, y], or NoValue
    corner,     \* tile math: tile_to_geo's result [lon, lat], or NoValue
    tile2,      \* tile math: geo_to_tile of that corner, or NoValue
    width,      \* tile math: level_to_tile_width's result, or NoValue
    mpc,        \* Mercator math: position of the evaluation
    mcoord,     \* Mercator math: a geographic coordinate [lat, lon] in 1e-7 degree, or NoValue
    woff,       \* Mercator math: a world offset [x, y] in 1/256 world unit, or NoValue
    geo,        \* Mercator math: world_mercator_to_lat_lon's result [lat, lon], or NoValue
    phase,      \* app: "built" (App constructed), "running" or "panicked"
    step,       \* app: the schedule the current frame is at
    camera,     \* app: the Camera2d entity [x, y, scale4, viewport], or NoValue
    window,     \* app: the primary window's size [w, h]
    input,      \* app: this frame's mouse input [pressed, cursor]
    clickLog,   \* app: what handle_mouse logged this frame, or NoValue
    rectArgs,   \* app: the arguments of this frame's viewport mapping, or NoValue
    worldRect,  \* app: the world-space rectangle [left, right, bottom, top], or NoValue
    geoRect,    \* app: the geographic rectangle Some([min, max]), or NoValue
    tiles,      \* OfmTiles.tiles: the spatial index
    tiles_to_render, \* OfmTiles.tiles_to_render
    inserted,   \* index: the tiles inserted so far (history)
    query       \* index: the last query [rect, contents], or NoValue

tvars == <<tpc, zoom, coord, tile, corner, tile2, width>>
mvars == <<mpc, mcoord, woff, geo>>
avars == <<phase, step, camera, window, input, clickLog, rectArgs, worldRect, geoRect>>
ivars == <<tiles, tiles_to_render, inserted, query>>
vars == <<tvars, mvars, avars, ivars>>

\* The parts of the state an evaluation of the other part leaves at rest.
TileIdle ==
    /\ tpc = "idle" /\ zoom = 0 /\ coord = [none |-> TRUE] /\ tile = [none |-> TRUE]
    /\ corner = [none |-> TRUE] /\ tile2 = [none |-> TRUE] /\ width = [none |-> TRUE]

MercIdle ==
    /\ mpc = "idle" /\ mcoord = [none |-> TRUE] /\ woff = [none |-> TRUE]
    /\ geo = [none |-> TRUE]

AppIdle ==
    /\ phase = "idle" /\ step = "idle" /\ camera = [none |-> TRUE]
    /\ window = [none |-> TRUE] /\ input = [none |-> TRUE] /\ clickLog = [none |-> TRUE]
    /\ rectArgs = [none |-> TRUE] /\ worldRect = [none |-> TRUE]
    /\ geoRect = [none |-> TRUE]

IndexIdle ==
    /\ tiles = <<>> /\ tiles_to_render = {} /\ inserted = {} /\ query = [none |-> TRUE]

NoValue == [none |-> TRUE]

Abs(v) == IF v < 0 THEN -v ELSE v

\* `as i32` of a quotient num / den (den > 0): truncation toward zero.
TruncDiv(num, den) == IF num >= 0 THEN num \div den ELSE -((-num) \div den)

(***************************************************************************)
(* The three computations of 2^zoom.                                       *)
(***************************************************************************)
\* (1 << zoom) with the literal typed i32: the shift amount is taken mod 32
\* (release build; a debug build panics for zoom >= 32) and bit 31 is the sign.
Shl32(z) ==
    LET s == z % 32
    IN  IF s = 31 THEN -2147483647 - 1 ELSE 2^s

\* 2.0f64.powi(zoom as i32): exact in f64.
Powi(z) == 2^z

\* 2_i32.pow(level as u32): wraps on overflow (release build; a debug build panics).
PowI32(level) ==
    IF level <= 30 THEN 2^level
    ELSE IF level = 31 THEN -2147483647 - 1
    ELSE 0

(***************************************************************************)
(* Latitude tables.                                                        *)
(***************************************************************************)
\* atan(sinh(PI * (1 - 2*y/n))).to_degrees() in 1e-6 degree, for y/n = j/32, j = 0..32
\* (entry j + 1).
CornerLatE6 ==
    <<85051129, 83979259, 82676285, 81093214, 79171335, 76840816, 74019543,
      70612614, 66513260, 61606396, 55776573, 48922499, 40979898, 31952162,
      21943046, 11178402, 0, -11178402, -21943046, -31952162, -40979898,
      -48922499, -55776573, -61606396, -66513260, -70612614, -74019543,
      -76840816, -79171335, -81093214, -82676285, -83979259, -85051129>>

\* (1 - ln(tan(lat_rad) + 1/cos(lat_rad)) / PI) / 2 as the f64 the source computes,
\* truncated to Q30, at the sampled latitudes: the tile corners above and some whole
\* degrees.  A corner whose f64 falls one ulp short of j/32 shows as j * 2^25 - 1.
MercFracQ30(lat) ==
    CASE lat = -85051129 -> 1073741823
      [] lat = -85000000 -> 1071983126
      [] lat = -84000000 -> 1040778184
      [] lat = -83979259 -> 1040187391
      [] lat = -82676285 -> 1006632960
      [] lat = -81093214 -> 973078528
      [] lat = -79171335 -> 939524096
      [] lat = -76840816 -> 905969664
      [] lat = -74019543 -> 872415232
      [] lat = -70612614 -> 838860800
      [] lat = -66513260 -> 805306368
      [] lat = -66000000 -> 801504177
      [] lat = -61606396 -> 771751935
      [] lat = -55776573 -> 738197503
      [] lat = -48922499 -> 704643072
      [] lat = -45000000 -> 687490006
      [] lat = -40979898 -> 671088640
      [] lat = -31952162 -> 637534208
      [] lat = -21943046 -> 603979776
      [] lat = -11178402 -> 570425344
      [] lat = -10000000 -> 566849663
      [] lat = 0 -> 536870912
      [] lat = 10000000 -> 506892160
      [] lat = 11178402 -> 503316480
      [] lat = 21943046 -> 469762048
      [] lat = 31952162 -> 436207616
      [] lat = 40979898 -> 402653184
      [] lat = 45000000 -> 386251817
      [] lat = 48922499 -> 369098752
      [] lat = 52000000 -> 354673131
      [] lat = 55776573 -> 335544320
      [] lat = 61606396 -> 301989887
      [] lat = 66000000 -> 272237646
      [] lat = 66513260 -> 268435455
      [] lat = 70612614 -> 234881023
      [] lat = 74019543 -> 201326592
      [] lat = 76840816 -> 167772160
      [] lat = 79171335 -> 134217728
      [] lat = 81093214 -> 100663295
      [] lat = 82676285 -> 67108863
      [] lat = 83979259 -> 33554432
      [] lat = 84000000 -> 32963639
      [] lat = 85000000 -> 1758697
      [] lat = 85051129 -> 0

\* The table entry of tile row y at a pyramid of n rows (y a multiple of n/32 when n > 32).
CornerIndex(y, n) ==
    IF n <= TableRows THEN y * (TableRows \div n) + 1
    ELSE y \div (n \div TableRows) + 1

(***************************************************************************)
(* Tile math.                                                              *)
(***************************************************************************)
\* geo_to_tile with the + 180 of the column formula forgotten.
GeoToTileNoOffset(lon, lat, z) ==
    LET n == Shl32(z)
    IN  [x |-> TruncDiv(n * lon.num, 2 * lon.den),
         y |-> TruncDiv(MercFracQ30(lat), Q30 \div n)]

\* geo_to_tile: x = (n * (lon + 180) / 360) as i32, with lon = 180 * num / den;
\* y = (n * (1 - ln(tan + sec)/PI) / 2) as i32.  n is a power of two, so n * f / 2^30
\* is f / (2^30 / n) for the Q30 value f.
GeoToTile(lon, lat, z) ==
    LET n == Shl32(z)
    IN  [x |-> TruncDiv(n * (lon.num + lon.den), 2 * lon.den),
         y |-> TruncDiv(MercFracQ30(lat), Q30 \div n)]

\* tile_to_geo: lon = xtile / n * 360 - 180 = 180 * (2*xtile - n) / n, the numerator
\* written xtile - (n - xtile) to stay inside 32 bits at zoom 30;
\* lat = atan(sinh(PI * (1 - 2*ytile/n))) in degrees.
TileToGeo(xtile, ytile, z) ==
    LET n == Powi(z)
    IN  [lon |-> [num |-> xtile - (n - xtile), den |-> n],
         lat |-> CornerLatE6[CornerIndex(ytile, n)]]

\* level_to_tile_width dividing 180 instead of 360.
LevelToTileWidthHalfTurn(level) == [num |-> 1, den |-> PowI32(level)]

\* level_to_tile_width: 360.0 / (2_i32.pow(level) as f32) = 180 * 2 / n degrees
\* (a power-of-two fraction of 360 is exact in f32).
LevelToTileWidth(level) == [num |-> 2, den |-> PowI32(level)]

(***************************************************************************)
(* Inputs of the tile math.                                                *)
(***************************************************************************)
Degrees(d) == [num |-> d, den |-> 180]

LonInputs == {Degrees(d) : d \in {-180, -135, -90, -1, 0, 1, 90, 179, 180}}

WholeLats == {-85000000, -84000000, -66000000, -45000000, -10000000, 0,
              10000000, 45000000, 52000000, 66000000, 84000000, 85000000}

\* Latitudes strictly inside the Mercator limit: whole degrees and interior tile corners.
LatInputs == WholeLats \cup {CornerLatE6[j] : j \in 2..TableRows}

\* Tiles probed at the high zooms: the first and last columns and rows.
EdgeTiles(z) ==
    LET n == Powi(z)
    IN  {[x |-> x, y |-> y] : x \in {0, 1, n - 1, n} \cap (0..n), y \in {0, n}}

TileInit ==
    /\ MercIdle
    /\ AppIdle
    /\ IndexIdle
    /\ corner = NoValue
    /\ tile2 = NoValue
    /\ width = NoValue
    /\ \/ /\ tpc = "coord"
          /\ zoom \in 0..MaxZoom
          /\ coord \in [lon : LonInputs, lat : LatInputs]
          /\ tile = NoValue
       \/ /\ tpc = "tile"
          /\ zoom \in 0..MaxZoom
          /\ coord = NoValue
          /\ tile \in [x : 0..Powi(MaxZoom), y : 0..Powi(MaxZoom)]
          /\ tile.x <= Powi(zoom)
          /\ tile.y <= Powi(zoom)
       \/ /\ tpc = "level"
          /\ zoom \in 0..MaxI32Zoom
          /\ coord = NoValue
          /\ tile \in UNION {EdgeTiles(z) : z \in 0..MaxI32Zoom}
          /\ tile \in EdgeTiles(zoom)

\* geo_to_tile applied to an input coordinate.
GeoToTileOfCoord ==
    /\ tpc = "coord"
    /\ tile' = GeoToTile(coord.lon, coord.lat, zoom)
    /\ tpc' = "coord_tiled"
    /\ UNCHANGED <<zoom, coord, corner, tile2, width>>
    /\ UNCHANGED <<mvars, avars, ivars>>

\* tile_to_geo applied to geo_to_tile's result.
TileToGeoOfResult ==
    /\ tpc = "coord_tiled"
    /\ corner' = TileToGeo(tile.x, tile.y, zoom)
    /\ tpc' = "coord_done"
    /\ UNCHANGED <<zoom, coord, tile, tile2, width>>
    /\ UNCHANGED <<mvars, avars, ivars>>

\* tile_to_geo applied to an input tile.
TileToGeoOfTile ==
    /\ tpc = "tile"
    /\ corner' = TileToGeo(tile.x, tile.y, zoom)
    /\ tpc' = "tile_cornered"
    /\ UNCHANGED <<zoom, coord, tile, tile2, width>>
    /\ UNCHANGED <<mvars, avars, ivars>>

\* geo_to_tile applied to tile_to_geo's corner.
GeoToTileOfCorner ==
    /\ tpc = "tile_cornered"
    /\ tile2' = GeoToTile(corner.lon, corner.lat, zoom)
    /\ tpc' = "tile_done"
    /\ UNCHANGED <<zoom, coord, tile, corner, width>>
    /\ UNCHANGED <<mvars, avars, ivars>>

\* level_to_tile_width applied to the level.
LevelToTileWidthOfLevel ==
    /\ tpc = "level"
    /\ width' = LevelToTileWidth(zoom)
    /\ tpc' = "level_width"
    /\ UNCHANGED <<zoom, coord, tile, corner, tile2>>
    /\ UNCHANGED <<mvars, avars, ivars>>

\* tile_to_geo applied to an edge tile of the level.
TileToGeoOfLevel ==
    /\ tpc = "level_width"
    /\ corner' = TileToGeo(tile.x, tile.y, zoom)
    /\ tpc' = "level_done"
    /\ UNCHANGED <<zoom, coord, tile, tile2, width>>
    /\ UNCHANGED <<mvars, avars, ivars>>

TileNext ==
    \/ GeoToTileOfCoord
    \/ TileToGeoOfResult
    \/ TileToGeoOfTile
    \/ GeoToTileOfCorner
    \/ LevelToTileWidthOfLevel
    \/ TileToGeoOfLevel

SpecTile == TileInit /\ [][TileNext]_vars

(***************************************************************************)
(* Claims about the tile math (checked under SpecTile).                    *)
(***************************************************************************)
\* Comparison and distance of two angles [num, den] (den > 0).
AngleLeq(a, b) == a.num * b.den <= b.num * a.den

AngleDist(a, b) == [num |-> Abs(a.num * b.den - b.num * a.den), den |-> a.den * b.den]

\* C1: for every valid longitude in [-180, 180] and latitude in (-85.05, 85.05),
\* geo_to_tile returns (x, y) with 0 <= x < 2^zoom and 0 <= y < 2^zoom, the boundary
\* longitude 180 included.
C1_TileIndexInRange ==
    (tpc = "coord_tiled" /\ Abs(coord.lat) < 85050000)
        => /\ 0 <= tile.x /\ tile.x < 2^zoom
           /\ 0 <= tile.y /\ tile.y < 2^zoom

\* C2: for lat in (-85, 85), tile_to_geo of geo_to_tile(lon, lat, zoom) lies within one
\* tile's angular width (360 / 2^zoom degrees) of lon and within one tile's angular
\* height (the latitude span of the returned tile) of lat.
C2_RoundTripWithinOneTile ==
    (tpc = "coord_done" /\ Abs(coord.lat) < 85000000)
        => /\ AngleLeq(AngleDist(coord.lon, corner.lon), [num |-> 2, den |-> 2^zoom])
           /\ tile.y < 2^zoom
           /\ Abs(corner.lat - coord.lat)
                <= corner.lat - TileToGeo(tile.x, tile.y + 1, zoom).lat

\* C2's case: a coordinate strictly inside a tile, away from its corner in both axes.
C2_Witness ==
    /\ tpc = "coord_done"
    /\ Abs(coord.lat) < 85000000
    /\ zoom >= 2
    /\ corner.lat > coord.lat
    /\ ~AngleLeq(coord.lon, corner.lon)

\* C9: for every tile (x, y) with 0 <= x, y < 2^zoom, geo_to_tile of the corner that
\* tile_to_geo(x, y, zoom) returns is exactly (x, y).
C9_CornerBelongsToItsTile ==
    (tpc = "tile_done" /\ tile.x < 2^zoom /\ tile.y < 2^zoom) => tile2 = tile

\* C10: for every zoom in 0..30 the longitudes of tile_to_geo tile [-180, 180]: column
\* 0 is at -180, column 2^zoom at 180, consecutive columns differ by
\* level_to_tile_width(zoom) = 360 / 2^zoom, and the three computations of 2^zoom
\* (1 << zoom, powi, 2_i32.pow) agree and are positive.
C10_LongitudesTileTheRange ==
    /\ tpc = "level_done" =>
        /\ Shl32(zoom) = Powi(zoom)
        /\ PowI32(zoom) = Powi(zoom)
        /\ Powi(zoom) > 0
        /\ width = [num |-> 2, den |-> 2^zoom]
        /\ tile.x = 0 => corner.lon.num = -corner.lon.den
        /\ tile.x = Powi(zoom) => corner.lon.num = corner.lon.den
        /\ tile.x < Powi(zoom) =>
            LET next == TileToGeo(tile.x + 1, tile.y, zoom).lon
            IN  /\ next.den = width.den
                /\ corner.lon.den = width.den
                /\ next.num - corner.lon.num = width.num
    /\ (tpc = "tile_cornered" /\ tile.x < Powi(zoom)) =>
            LET next == TileToGeo(tile.x + 1, tile.y, zoom).lon
                w == LevelToTileWidth(zoom)
            IN  /\ next.den = w.den
                /\ corner.lon.den = w.den
                /\ next.num - corner.lon.num = w.num

\* C10's case: the last column at the largest zoom.
C10_Witness ==
    /\ tpc = "level_done"
    /\ zoom = MaxI32Zoom
    /\ tile.x = Powi(zoom)
    /\ corner.lon.num = corner.lon.den

(***************************************************************************)
(* Reference-relative Web Mercator conversion.                             *)
(* Geographic coordinates are integers of 1e-7 degree, Mercator positions  *)
(* integers of centimetres, world offsets integers of 1/256 world unit.    *)
(***************************************************************************)
\* STARTING_LONG_LAT = Coord::new(52.18492, 0.14281721): the f32 fields, in 1e-7 degree.
RefLatE7 == 521849213
RefLonE7 == 1428172
STARTING_ZOOM == 14
TILE_QUALITY == 512
\* 20037508.34 m in centimetres.
EarthCm == 2003750834

\* Click offsets are multiples of 1/8 world unit up to MaxClick eighths.
MaxClick == 4
\* Longitudes of the round trip are the reference plus up to MaxDelta micro-degrees.
MaxDelta == 12

\* x + y against the modulus c, for 0 <= x, y < c, without leaving 32 bits.
AddMod(x, y, c) ==
    IF x >= c - y THEN [carry |-> 1, r |-> x - (c - y)] ELSE [carry |-> 0, r |-> x + y]

\* Quotient and remainder of a * b by c (a, b >= 0, c > 0), by binary long multiplication.
RECURSIVE MulDivQR(_, _, _)
MulDivQR(a, b, c) ==
    IF b = 0 THEN [q |-> 0, r |-> 0]
    ELSE LET h == MulDivQR(a, b \div 2, c)
             d == AddMod(h.r, h.r, c)
             e == IF b % 2 = 1 THEN AddMod(d.r, a % c, c) ELSE [carry |-> 0, r |-> d.r]
         IN  [q |-> 2 * h.q + d.carry + (IF b % 2 = 1 THEN a \div c ELSE 0) + e.carry,
              r |-> e.r]

\* a * b / c rounded to the nearest integer, half away from zero (a of either sign).
MulDivRound(a, b, c) ==
    LET qr == MulDivQR(Abs(a), b, c)
        m == qr.q + (IF qr.r >= c - qr.r THEN 1 ELSE 0)
    IN  IF a < 0 THEN -m ELSE m

\* scale = (20037508.34 * 2 / 2^STARTING_ZOOM) / TILE_QUALITY, in micrometres per world unit.
ScaleUm == MulDivQR(EarthCm, 20000, (2^STARTING_ZOOM) * TILE_QUALITY).q

\* (offset * scale).round() in metres, with f64::round's half away from zero; the
\* offset is in 1/256 world unit, the product is taken in millimetres.
ScaleRound(off) ==
    LET mm == MulDivQR(Abs(off), ScaleUm, 256000).q
        k == (mm + 500) \div 1000
    IN  IF off < 0 THEN -k ELSE k

\* (offset * scale) with the fraction cut off instead of rounded.
ScaleTrunc(off) ==
    LET mm == MulDivQR(Abs(off), ScaleUm, 256000).q
        k == mm \div 1000
    IN  IF off < 0 THEN -k ELSE k

\* ln(tan(PI/4 + lat_rad/2)) * EARTH_RADIUS / PI in centimetres at the sampled
\* latitudes, lat taken to f32 and converted to radians in f32 as the source does
\* (an f32 near 52 degrees resolves 3.8e-6 degree).
MercatorYcm(lat) ==
    CASE lat = 521849153 -> 683362938
      [] lat = 521849173 -> 683363000
      [] lat = 521849200 -> 683363062
      [] lat = 521849213 -> 683363062
      [] lat = 521849233 -> 683363124
      [] lat = 521849253 -> 683363124
      [] lat = 521849273 -> 683363248

\* lat_lon_to_world_mercator: x = lon_rad * EARTH_RADIUS / PI = lon/180 * EARTH_RADIUS.
LatLonToWorldMercator(lat, lon) ==
    [x |-> MulDivRound(lon, EarthCm, 1800000000), y |-> MercatorYcm(lat)]

\* (2 * atan(exp(y / 20037508.34 * 180 in radians)) - PI/2).to_degrees() in 1e-7 degree,
\* at the Mercator heights the model reaches: the reference's own height plus whole metres.
InverseMercatorLatE7(y) ==
    CASE y = 683074962 -> 521690492
      [] y = 683075462 -> 521690767
      [] y = 683075962 -> 521691043
      [] y = 683076462 -> 521691318
      [] y = 683076862 -> 521691539
      [] y = 683077362 -> 521691814
      [] y = 683077862 -> 521692090
      [] y = 683218262 -> 521769438
      [] y = 683218762 -> 521769714
      [] y = 683219262 -> 521769989
      [] y = 683219762 -> 521770265
      [] y = 683220262 -> 521770540
      [] y = 683220662 -> 521770760
      [] y = 683221162 -> 521771036
      [] y = 683289962 -> 521808934
      [] y = 683290462 -> 521809209
      [] y = 683290962 -> 521809485
      [] y = 683291362 -> 521809705
      [] y = 683291862 -> 521809981
      [] y = 683292362 -> 521810256
      [] y = 683292862 -> 521810531
      [] y = 683325762 -> 521828653
      [] y = 683326262 -> 521828928
      [] y = 683326762 -> 521829204
      [] y = 683327262 -> 521829479
      [] y = 683327662 -> 521829699
      [] y = 683328162 -> 521829975
      [] y = 683328662 -> 521830250
      [] y = 683361662 -> 521848426
      [] y = 683362062 -> 521848646
      [] y = 683362262 -> 521848757
      [] y = 683362362 -> 521848812
      [] y = 683362462 -> 521848867
      [] y = 683362562 -> 521848922
      [] y = 683362662 -> 521848977
      [] y = 683362762 -> 521849032
      [] y = 683362862 -> 521849087
      [] y = 683362962 -> 521849142
      [] y = 683363062 -> 521849197
      [] y = 683363162 -> 521849252
      [] y = 683363262 -> 521849307
      [] y = 683363362 -> 521849362
      [] y = 683363462 -> 521849417
      [] y = 683363562 -> 521849473
      [] y = 683363662 -> 521849528
      [] y = 683363762 -> 521849583
      [] y = 683363862 -> 521849638
      [] y = 683364062 -> 521849748
      [] y = 683364462 -> 521849968
      [] y = 683397462 -> 521868143
      [] y = 683397962 -> 521868419
      [] y = 683398462 -> 521868694
      [] y = 683398862 -> 521868914
      [] y = 683399362 -> 521869190
      [] y = 683399862 -> 521869465
      [] y = 683400362 -> 521869740
      [] y = 683433262 -> 521887860
      [] y = 683433762 -> 521888135
      [] y = 683434262 -> 521888410
      [] y = 683434762 -> 521888686
      [] y = 683435162 -> 521888906
      [] y = 683435662 -> 521889181
      [] y = 683436162 -> 521889457
      [] y = 683504962 -> 521927345
      [] y = 683505462 -> 521927620
      [] y = 683505862 -> 521927840
      [] y = 683506362 -> 521928116
      [] y = 683506862 -> 521928391
      [] y = 683507362 -> 521928666
      [] y = 683507862 -> 521928942
      [] y = 683648262 -> 522006249
      [] y = 683648762 -> 522006524
      [] y = 683649262 -> 522006800
      [] y = 683649662 -> 522007020
      [] y = 683650162 -> 522007295
      [] y = 683650662 -> 522007571
      [] y = 683651162 -> 522007846

\* (global_x / 20037508.34) * 180 in 1e-7 degree.
InverseMercatorLonE7(x) == MulDivRound(x, 1800000000, EarthCm)

\* world_mercator_to_lat_lon with `as`-style truncation in place of round().
WorldMercatorToLatLonTrunc(x_offset, y_offset) ==
    LET ref == LatLonToWorldMercator(RefLatE7, RefLonE7)
        global_x == ref.x + 100 * ScaleTrunc(x_offset)
        global_y == ref.y + 100 * ScaleTrunc(y_offset)
    IN  [lat |-> InverseMercatorLatE7(global_y), lon |-> InverseMercatorLonE7(global_x)]

\* world_mercator_to_lat_lon(x_offset, y_offset, STARTING_LONG_LAT): returns (lat, lon).
WorldMercatorToLatLon(x_offset, y_offset) ==
    LET ref == LatLonToWorldMercator(RefLatE7, RefLonE7)
        global_x == ref.x + 100 * ScaleRound(x_offset)
        global_y == ref.y + 100 * ScaleRound(y_offset)
    IN  [lat |-> InverseMercatorLatE7(global_y), lon |-> InverseMercatorLonE7(global_x)]

\* geoToWorldMercator of the specification: the coordinate's Mercator position minus
\* the reference's, divided by the scale (in 1/256 world unit).
GeoToWorldMercator(c) ==
    LET ref == LatLonToWorldMercator(RefLatE7, RefLonE7)
        pos == LatLonToWorldMercator(c.lat, c.lon)
    IN  [x |-> MulDivRound(pos.x - ref.x, 2560000, ScaleUm),
         y |-> MulDivRound(pos.y - ref.y, 2560000, ScaleUm)]

ClickOffsets == {32 * i : i \in (-MaxClick)..MaxClick}

MercLatInputs == {521849153, 521849173, 521849200, 521849213, 521849233, 521849253,
                  521849273}

MercInit ==
    /\ TileIdle
    /\ AppIdle
    /\ IndexIdle
    /\ geo = NoValue
    /\ \/ /\ mpc = "offset"
          /\ mcoord = NoValue
          /\ woff \in [x : ClickOffsets, y : ClickOffsets]
       \/ /\ mpc = "coord"
          /\ mcoord \in [lat : MercLatInputs, lon : {RefLonE7 + 10 * d : d \in 0..MaxDelta}]
          /\ woff = NoValue

\* world_mercator_to_lat_lon applied to an input offset.
WorldMercatorToLatLonOfOffset ==
    /\ mpc = "offset"
    /\ geo' = WorldMercatorToLatLon(woff.x, woff.y)
    /\ mpc' = "offset_done"
    /\ UNCHANGED <<mcoord, woff>>
    /\ UNCHANGED <<tvars, avars, ivars>>

\* The forward projection applied to an input coordinate.
GeoToWorldMercatorOfCoord ==
    /\ mpc = "coord"
    /\ woff' = GeoToWorldMercator(mcoord)
    /\ mpc' = "projected"
    /\ UNCHANGED <<mcoord, geo>>
    /\ UNCHANGED <<tvars, avars, ivars>>

\* world_mercator_to_lat_lon applied to the projected offset.
WorldMercatorToLatLonOfProjected ==
    /\ mpc = "projected"
    /\ geo' = WorldMercatorToLatLon(woff.x, woff.y)
    /\ mpc' = "unprojected"
    /\ UNCHANGED <<mcoord, woff>>
    /\ UNCHANGED <<tvars, avars, ivars>>

MercNext ==
    \/ WorldMercatorToLatLonOfOffset
    \/ GeoToWorldMercatorOfCoord
    \/ WorldMercatorToLatLonOfProjected

SpecMerc == MercInit /\ [][MercNext]_vars

(***************************************************************************)
(* Claims about the Mercator conversion (checked under SpecMerc).          *)
(***************************************************************************)
\* C3: projecting a coordinate into world space relative to the reference and converting
\* the offset back with world_mercator_to_lat_lon reproduces the coordinate within
\* 1e-6 degree (10 units of 1e-7 degree) in latitude and longitude.
C3_MercatorRoundTrip ==
    mpc = "unprojected"
        => /\ Abs(geo.lat - mcoord.lat) <= 10
           /\ Abs(geo.lon - mcoord.lon) <= 10

\* C8: the result depends on the offsets only through round(x_offset * scale) and
\* round(y_offset * scale): offsets with the same rounded scaled values give the same
\* coordinate, and offset (0, 0) gives the inverse Mercator of the reference's own
\* Mercator position.
C8_DependsOnRoundedOffsetOnly ==
    mpc = "offset_done"
        => /\ \A o \in [x : ClickOffsets, y : ClickOffsets] :
                (ScaleRound(o.x) = ScaleRound(woff.x) /\ ScaleRound(o.y) = ScaleRound(woff.y))
                    => WorldMercatorToLatLon(o.x, o.y) = geo
           /\ (woff.x = 0 /\ woff.y = 0)
                => LET ref == LatLonToWorldMercator(RefLatE7, RefLonE7)
                   IN  geo = [lat |-> InverseMercatorLatE7(ref.y),
                              lon |-> InverseMercatorLonE7(ref.x)]

\* C8's case: two different non-zero offsets that round to the same non-zero metres.
C8_Witness ==
    /\ mpc = "offset_done"
    /\ ScaleRound(woff.x) # 0
    /\ \E o \in [x : ClickOffsets, y : ClickOffsets] :
            /\ o # woff
            /\ ScaleRound(o.x) = ScaleRound(woff.x)
            /\ ScaleRound(o.y) = ScaleRound(woff.y)
            /\ WorldMercatorToLatLon(o.x, o.y) = geo

(***************************************************************************)
(* The application: main's schedules, handle_mouse and the viewport        *)
(* mapping.  A frame runs PreUpdate (input), Update (handle_mouse, then    *)
(* the tile display system that maps the viewport) and PostUpdate (camera  *)
(* movement is propagated to the GlobalTransform and the camera's viewport *)
(* size is computed from the window).                                      *)
(***************************************************************************)
\* The camera's translation stays within MaxCam world units of the origin.
MaxCam == 1

Windows == {[w |-> 800, h |-> 600], [w |-> 1600, h |-> 1200]}

\* projection.scale in quarters: PanCam's min_scale is 0.25, the default scale is 1.0.
Scales4 == {1, 2, 4}

Cursors == {"none", "top_left", "center", "bottom_right"}

AppInit ==
    /\ TileIdle
    /\ MercIdle
    /\ IndexIdle
    /\ phase = "built"
    /\ step = "startup"
    /\ camera = NoValue
    /\ window \in Windows
    /\ input = [pressed |-> FALSE, cursor |-> "none"]
    /\ clickLog = NoValue
    /\ rectArgs = NoValue
    /\ worldRect = NoValue
    /\ geoRect = NoValue

\* setup_camera (Startup): spawns the Camera2d at the default transform and scale; its
\* viewport size is not computed before the first PostUpdate.
SetupCamera ==
    /\ phase = "built"
    /\ camera' = [x |-> 0, y |-> 0, scale4 |-> 4, viewport |-> FALSE]
    /\ phase' = "running"
    /\ step' = "pre_update"
    /\ UNCHANGED <<window, input, clickLog, rectArgs, worldRect, geoRect>>
    /\ UNCHANGED <<tvars, mvars, ivars>>

\* PreUpdate: the frame's mouse input arrives and the window may have been resized;
\* the previous frame's results are gone.
PreUpdate ==
    /\ phase = "running"
    /\ step = "pre_update"
    /\ \E pressed \in BOOLEAN, cursor \in Cursors :
            input' = [pressed |-> pressed, cursor |-> cursor]
    /\ window' \in Windows
    /\ clickLog' = NoValue
    /\ rectArgs' = NoValue
    /\ worldRect' = NoValue
    /\ geoRect' = NoValue
    /\ step' = "handle_mouse"
    /\ UNCHANGED <<phase, camera>>
    /\ UNCHANGED <<tvars, mvars, ivars>>

\* Camera::viewport_to_world_2d for an orthographic camera: the cursor's distance from
\* the window centre times the scale, y flipped (in 1/256 world unit).
ViewportToWorld2d(cam, win, cursor) ==
    LET px == CASE cursor = "top_left" -> 0
                [] cursor = "center" -> win.w \div 2
                [] cursor = "bottom_right" -> win.w
        py == CASE cursor = "top_left" -> 0
                [] cursor = "center" -> win.h \div 2
                [] cursor = "bottom_right" -> win.h
    IN  [x |-> 256 * cam.x + (px - win.w \div 2) * cam.scale4 * 64,
         y |-> 256 * cam.y + (win.h \div 2 - py) * cam.scale4 * 64]

\* handle_mouse: camera.single() panics without exactly one camera; on a left press
\* with the cursor inside the window, viewport_to_world_2d(..).unwrap() panics while the
\* camera has no viewport size; otherwise the clicked coordinate is logged.
HandleMouse ==
    /\ phase = "running"
    /\ step = "handle_mouse"
    /\ IF camera = NoValue
       THEN /\ phase' = "panicked"
            /\ UNCHANGED <<step, clickLog>>
       ELSE IF input.pressed /\ input.cursor # "none"
       THEN IF ~camera.viewport
            THEN /\ phase' = "panicked"
                 /\ UNCHANGED <<step, clickLog>>
            ELSE LET world_pos == ViewportToWorld2d(camera, window, input.cursor)
                 IN  /\ clickLog' = WorldMercatorToLatLon(world_pos.x, world_pos.y)
                     /\ step' = "display"
                     /\ UNCHANGED phase
       ELSE /\ step' = "display"
            /\ UNCHANGED <<phase, clickLog>>
    /\ UNCHANGED <<camera, window, input, rectArgs, worldRect, geoRect>>
    /\ UNCHANGED <<tvars, mvars, ivars>>

\* The world-space rectangle centred on the camera (half the extent to each side).
CameraSpaceWorldRectCentred(cam, win) ==
    [left |-> 256 * cam.x - (win.w * cam.scale4 * 64) \div 2,
     right |-> 256 * cam.x + (win.w * cam.scale4 * 64) \div 2,
     bottom |-> 256 * cam.y + (win.h * cam.scale4 * 64) \div 2,
     top |-> 256 * cam.y - (win.h * cam.scale4 * 64) \div 2]

\* camera_space_to_lat_long_rect, the world-space rectangle (in 1/256 world unit):
\* left = x, right = x + (window_width * scale) / 2.0, bottom = y + (window_height *
\* scale) / 2.0, top = y.
CameraSpaceWorldRect(cam, win) ==
    [left |-> 256 * cam.x,
     right |-> 256 * cam.x + (win.w * cam.scale4 * 64) \div 2,
     bottom |-> 256 * cam.y + (win.h * cam.scale4 * 64) \div 2,
     top |-> 256 * cam.y]

\* geo::Rect::new(c1, c2): the corners are ordered into min and max per component.
RectNew(c1, c2) ==
    LET Min(a, b) == IF a <= b THEN a ELSE b
        Max(a, b) == IF a <= b THEN b ELSE a
    IN  [min |-> [lat |-> Min(c1.lat, c2.lat), lon |-> Min(c1.lon, c2.lon)],
         max |-> [lat |-> Max(c1.lat, c2.lat), lon |-> Max(c1.lon, c2.lon)]]

\* camera_space_to_lat_long_rect: Some(Rect::new(world_mercator_to_lat_lon(left, bottom),
\* world_mercator_to_lat_lon(right, top))); the function has no other return.
CameraSpaceToLatLongRect(cam, win) ==
    LET r == CameraSpaceWorldRect(cam, win)
    IN  [some |-> RectNew(WorldMercatorToLatLon(r.left, r.bottom),
                          WorldMercatorToLatLon(r.right, r.top))]

\* The tile display system maps the viewport once per frame, with the camera's
\* GlobalTransform, the window and the projection.
DisplayMapsViewport ==
    /\ phase = "running"
    /\ step = "display"
    /\ camera # NoValue
    /\ rectArgs' = [x |-> camera.x, y |-> camera.y, scale4 |-> camera.scale4,
                    w |-> window.w, h |-> window.h, viewport |-> camera.viewport]
    /\ worldRect' = CameraSpaceWorldRect(camera, window)
    /\ geoRect' = CameraSpaceToLatLongRect(camera, window)
    /\ step' = "post_update"
    /\ UNCHANGED <<phase, camera, window, input, clickLog>>
    /\ UNCHANGED <<tvars, mvars, ivars>>

\* PostUpdate: PanCam's movement and zoom reach the camera, and the camera's viewport
\* size is computed from the window.
PostUpdate ==
    /\ phase = "running"
    /\ step = "post_update"
    /\ \E x \in (-MaxCam)..MaxCam, y \in (-MaxCam)..MaxCam, s \in Scales4 :
            camera' = [x |-> x, y |-> y, scale4 |-> s, viewport |-> TRUE]
    /\ step' = "pre_update"
    /\ UNCHANGED <<phase, window, input, clickLog, rectArgs, worldRect, geoRect>>
    /\ UNCHANGED <<tvars, mvars, ivars>>

AppNext ==
    \/ SetupCamera
    \/ PreUpdate
    \/ HandleMouse
    \/ DisplayMapsViewport
    \/ PostUpdate

SpecApp == AppInit /\ [][AppNext]_vars

(***************************************************************************)
(* Claims about the application (checked under SpecApp).                   *)
(***************************************************************************)
\* C4: every frame completes without a crash, the frames in which camera or window
\* state is not available yet included: no per-frame system panics.
C4_NoFramePanics == phase # "panicked"

\* C5 as stated: with the camera at the world origin, a window of 800x600 and scale
\* 1.0, the center of the geographic rectangle is world_mercator_to_lat_lon(0, 0).
AtOrigin800x600 ==
    /\ phase = "running"
    /\ step = "post_update"
    /\ rectArgs = [x |-> 0, y |-> 0, scale4 |-> 4, w |-> 800, h |-> 600,
                   viewport |-> rectArgs.viewport]

C6_FullExtentRect ==
    (phase = "running" /\ step = "post_update")
        => /\ worldRect.left = 256 * rectArgs.x
           /\ worldRect.top = 256 * rectArgs.y
           /\ worldRect.right = 256 * rectArgs.x + rectArgs.w * rectArgs.scale4 * 64
           /\ worldRect.bottom = 256 * rectArgs.y + rectArgs.h * rectArgs.scale4 * 64

(***************************************************************************)
(* The tile resource OfmTiles: the spatial index and the render list.      *)
(* main creates both empty; the index is an R-tree of one level of leaves, *)
(* each leaf holding up to LeafCap tiles under their bounding rectangle.   *)
(***************************************************************************)
\* Tiles of the grid 0..MaxGrid x 0..MaxGrid are fetched, at most MaxTiles of them.
MaxGrid == 1
MaxTiles == 3
\* A leaf of the index holds at most LeafCap tiles.
LeafCap == 2

\* RTree::new() holding a tile no insertion has delivered.
RTreeStale ==
    <<[mbr |-> [x0 |-> 0, y0 |-> 0, x1 |-> TILE_QUALITY, y1 |-> TILE_QUALITY],
       items |-> {[x |-> 0, y |-> 0]}]>>

\* RTree::new(): the empty index.
RTreeNew == <<>>

\* Vec::new(): the empty render list (its order is unspecified: a set).
VecNew == {}

\* A tile's footprint: the square of TILE_QUALITY world units at its grid position.
Footprint(t) ==
    [x0 |-> t.x * TILE_QUALITY, y0 |-> t.y * TILE_QUALITY,
     x1 |-> (t.x + 1) * TILE_QUALITY, y1 |-> (t.y + 1) * TILE_QUALITY]

\* Two axis-aligned rectangles overlap (touching edges included).
Intersects(a, b) ==
    /\ a.x0 <= b.x1 /\ b.x0 <= a.x1
    /\ a.y0 <= b.y1 /\ b.y0 <= a.y1

\* The smallest rectangle holding both.
Merge(a, b) ==
    [x0 |-> IF a.x0 <= b.x0 THEN a.x0 ELSE b.x0,
     y0 |-> IF a.y0 <= b.y0 THEN a.y0 ELSE b.y0,
     x1 |-> IF a.x1 >= b.x1 THEN a.x1 ELSE b.x1,
     y1 |-> IF a.y1 >= b.y1 THEN a.y1 ELSE b.y1]

Area(a) == (a.x1 - a.x0) * (a.y1 - a.y0)

\* insert(tile): the tile goes to the leaf with room whose rectangle grows least (the
\* first such leaf), which is enlarged to cover it; without one, to a new leaf.
InsertInto(tree, t) ==
    LET fp == Footprint(t)
        Growth(i) == Area(Merge(tree[i].mbr, fp)) - Area(tree[i].mbr)
        room == {i \in 1..Len(tree) : Cardinality(tree[i].items) < LeafCap}
    IN  IF room = {}
        THEN Append(tree, [mbr |-> fp, items |-> {t}])
        ELSE LET best == CHOOSE i \in room :
                            \A j \in room : Growth(i) < Growth(j) \/ (Growth(i) = Growth(j) /\ i <= j)
             IN  [tree EXCEPT ![best] = [mbr |-> Merge(tree[best].mbr, fp),
                                         items |-> tree[best].items \cup {t}]]

\* queryIntersecting(rect): the tiles overlapping rect, looked for only in the leaves
\* whose rectangle overlaps rect.
QueryIntersecting(tree, rect) ==
    UNION {{t \in tree[i].items : Intersects(Footprint(t), rect)} :
                i \in {j \in 1..Len(tree) : Intersects(tree[j].mbr, rect)}}

GridTiles == [x : 0..MaxGrid, y : 0..MaxGrid]

QueryRects ==
    {[x0 |-> a, y0 |-> b, x1 |-> a + e, y1 |-> b + e] :
        a \in {-600, 0, 600}, b \in {-600, 0, 600}, e \in {100, 700}}

\* main: insert_resource(OfmTiles { tiles: RTree::new(), tiles_to_render: Vec::new() }).
IndexInit ==
    /\ TileIdle
    /\ MercIdle
    /\ AppIdle
    /\ tiles = RTreeNew
    /\ tiles_to_render = VecNew
    /\ inserted = {}
    /\ query = NoValue

\* A fetched tile is handed to the index; the caller inserts no tile twice.
InsertTile ==
    /\ Cardinality(inserted) < MaxTiles
    /\ \E t \in GridTiles \ inserted :
            /\ tiles' = InsertInto(tiles, t)
            /\ inserted' = inserted \cup {t}
    /\ UNCHANGED <<tiles_to_render, query>>
    /\ UNCHANGED <<tvars, mvars, avars>>

\* The per-frame query rebuilds the render list.
QueryTiles ==
    /\ \E rect \in QueryRects :
            /\ tiles_to_render' = QueryIntersecting(tiles, rect)
            /\ query' = [rect |-> rect, contents |-> inserted]
    /\ UNCHANGED <<tiles, inserted>>
    /\ UNCHANGED <<tvars, mvars, avars>>

IndexNext ==
    \/ InsertTile
    \/ QueryTiles

SpecIndex == IndexInit /\ [][IndexNext]_vars

====
